---- MODULE Spec2Model ----
(***************************************************************************)
(* Decoder++ core: Command and its Builder (core/command/command.py) and   *)
(* the plugin base classes (core/plugin/abstract_plugin.py).               *)
(*                                                                         *)
(* Python values are records [t, v]: t is the Python type, v a sequence.   *)
(* A str is the sequence of its characters, so that len(), capitalize(),   *)
(* split(), join() and format() are computed character by character.       *)
(***************************************************************************)
EXTENDS Integers, Sequences, FiniteSets

VARIABLES
    builder,   \* the fields of one Command.Builder object
    cmd,       \* the Command the caller holds (None before the first build)
    last,      \* the operation just performed: its argument, result and hook calls
    plugin,    \* the plugin object the caller holds (None before construction)
    probe,     \* an object looked up in the host's set
    bag,       \* the host's set of Commands, or of plugins
    seed,      \* the process's string hash seed
    text,      \* the text buffer handed to _run_lines
    linesep,   \* os.linesep of the platform
    out        \* the outcome of the last _run_lines call

vars == <<builder, cmd, last, plugin, probe, bag, seed, text, linesep, out>>

----------------------------------------------------------------------------
(* Python values *)

None == [t |-> "None", v |-> <<>>]

Str(s) == [t |-> "str", v |-> s]

Fn(id) == [t |-> "function", v |-> <<id>>]

IsStr(x) == x.t = "str"

LowerCase == <<"a","b","c","d","e","f","g","h","i","j","k","l","m",
               "n","o","p","q","r","s","t","u","v","w","x","y","z">>

UpperCase == <<"A","B","C","D","E","F","G","H","I","J","K","L","M",
               "N","O","P","Q","R","S","T","U","V","W","X","Y","Z">>

\* str.upper() of one character
ToUpper(c) ==
    IF \E i \in 1..Len(LowerCase) : LowerCase[i] = c
    THEN UpperCase[CHOOSE i \in 1..Len(LowerCase) : LowerCase[i] = c]
    ELSE c

\* str.lower() of one character
ToLower(c) ==
    IF \E i \in 1..Len(UpperCase) : UpperCase[i] = c
    THEN LowerCase[CHOOSE i \in 1..Len(UpperCase) : UpperCase[i] = c]
    ELSE c

\* the characters of s.capitalize(): the first upper-cased, the rest lower-cased
Capitalize(s) ==
    [i \in 1..Len(s) |-> IF i = 1 THEN ToUpper(s[i]) ELSE ToLower(s[i])]

\* the characters of "{} {}".format(a, b) for two str
Format2(a, b) == a \o <<" ">> \o b

\* Command.Type
DECODER == Str(<<"D","e","c","o","d","e","r">>)
ENCODER == Str(<<"E","n","c","o","d","e","r">>)
HASHER == Str(<<"H","a","s","h","e","r">>)
SCRIPT == Str(<<"S","c","r","i","p","t">>)

----------------------------------------------------------------------------
(* Command *)

\* Command.__init__
NewCommand(name, type, author, title_method, run_method, select_method) ==
    [name |-> name, type |-> type, author |-> author,
     title_method |-> title_method, run_method |-> run_method,
     select_method |-> select_method]

\* The two functions build() creates. Both close over the builder (self), not
\* over the values its fields hold when build() runs.
DefaultSelect == [t |-> "closure", v |-> <<"_select_method", "self">>]
DefaultTitle == [t |-> "closure", v |-> <<"lambda", "self">>]

\* What a hook supplied by the caller returns: text tagged by the hook.
HookResult(h, args) ==
    Str(h.v \o (IF Len(args) > 0 THEN <<"(">> \o args[1].v \o <<")">> ELSE <<>>))

Returned(value, calls) == [ret |-> value, raised |-> "", calls |-> calls]
Raised(exc, calls) == [ret |-> None, raised |-> exc, calls |-> calls]

\* Calling fn(*args): a caller's hook, or one of build()'s closures, which read
\* the builder b at the time of the call.
Invoke(fn, args, b) ==
    CASE fn.t = "function" ->
            Returned(HookResult(fn, args), <<[fn |-> fn, args |-> args]>>)
      [] fn = DefaultSelect ->
            IF b.run_method.t = "function"
            THEN Returned(None, <<[fn |-> b.run_method, args |-> args]>>)
            ELSE Raised("TypeError", <<>>)
      [] fn = DefaultTitle ->
            IF IsStr(b.type) /\ IsStr(b.name)
            THEN Returned(Str(Format2(b.name.v, Capitalize(b.type.v))), <<>>)
            ELSE Raised("AttributeError", <<>>)
      [] OTHER -> Raised("TypeError", <<>>)

CommandName(c) == c.name
CommandType(c) == c.type
CommandAuthor(c) == c.author
CommandTitle(c, b) == Invoke(c.title_method, <<>>, b)
CommandSelect(c, args, b) == Invoke(c.select_method, args, b)
CommandRun(c, args, b) == Invoke(c.run_method, args, b)

----------------------------------------------------------------------------
(* Command.Builder *)

\* Builder.__init__
NewBuilder ==
    [name |-> None, type |-> None, author |-> None,
     run_method |-> None, select_method |-> None, title_method |-> None]

\* faulty variant: an empty name passes
BuildAssertsAllowEmptyName(b) ==
    /\ b.name # None
    /\ b.type # None
    /\ b.run_method # None

\* the three assertions of build()
BuildAsserts(b) ==
    /\ b.name # None /\ Len(b.name.v) > 0
    /\ b.type # None
    /\ b.run_method # None

\* the builder after build() has supplied the defaults
BuilderAfterBuild(b) ==
    [b EXCEPT !.select_method = IF @ = None THEN DefaultSelect ELSE @,
              !.title_method = IF @ = None THEN DefaultTitle ELSE @]

\* faulty variant: author and type handed to Command() in each other's place
BuiltCommandSwapped(b) ==
    LET d == BuilderAfterBuild(b)
    IN NewCommand(d.name, d.author, d.type,
                  d.title_method, d.run_method, d.select_method)

\* the Command build() returns
BuiltCommand(b) ==
    LET d == BuilderAfterBuild(b)
    IN NewCommand(d.name, d.type, d.author,
                  d.title_method, d.run_method, d.select_method)

\* Values the caller hands to the setters and to the hooks.
Names == {Str(<<>>), Str(<<"B","a","s","e","6","4">>), Str(<<"r","o","t">>)}
Types == {DECODER, Str(<<"s","c","r","i","p","t">>)}
Authors == {Str(<<"x">>)}
TitleHooks == {Fn("t")}
RunHooks == {Fn("f"), Fn("g")}
SelectHooks == {Fn("s")}
Inputs == {<<Str(<<"A">>)>>, <<Str(<<"B">>)>>}

Did(op, arg, res) ==
    [op |-> op, arg |-> arg, ret |-> res.ret, raised |-> res.raised,
     calls |-> res.calls]

Idle == Did("", <<>>, Returned(None, <<>>))

Self == [t |-> "Builder", v |-> <<"self">>]

BuildFrame == UNCHANGED <<plugin, probe, bag, seed, text, linesep, out>>

SetName(name) ==
    /\ builder' = [builder EXCEPT !.name = name]
    /\ last' = Did("Builder.name", <<name>>, Returned(Self, <<>>))
    /\ UNCHANGED cmd
    /\ BuildFrame

SetType(type) ==
    /\ builder' = [builder EXCEPT !.type = type]
    /\ last' = Did("Builder.type", <<type>>, Returned(Self, <<>>))
    /\ UNCHANGED cmd
    /\ BuildFrame

SetAuthor(author) ==
    /\ builder' = [builder EXCEPT !.author = author]
    /\ last' = Did("Builder.author", <<author>>, Returned(Self, <<>>))
    /\ UNCHANGED cmd
    /\ BuildFrame

SetTitle(title_method) ==
    /\ builder' = [builder EXCEPT !.title_method = title_method]
    /\ last' = Did("Builder.title", <<title_method>>, Returned(Self, <<>>))
    /\ UNCHANGED cmd
    /\ BuildFrame

SetRun(run_method) ==
    /\ builder' = [builder EXCEPT !.run_method = run_method]
    /\ last' = Did("Builder.run", <<run_method>>, Returned(Self, <<>>))
    /\ UNCHANGED cmd
    /\ BuildFrame

SetSelect(select_method) ==
    /\ builder' = [builder EXCEPT !.select_method = select_method]
    /\ last' = Did("Builder.select", <<select_method>>, Returned(Self, <<>>))
    /\ UNCHANGED cmd
    /\ BuildFrame

\* c = builder.build() (keep), or builder.build() with the result dropped
Build(keep) ==
    /\ IF BuildAsserts(builder)
       THEN /\ builder' = BuilderAfterBuild(builder)
            /\ last' = Did("Builder.build", <<>>,
                           Returned(BuiltCommand(builder), <<>>))
            /\ cmd' = IF keep THEN BuiltCommand(builder) ELSE cmd
       ELSE /\ last' = Did("Builder.build", <<>>, Raised("AssertionError", <<>>))
            /\ UNCHANGED <<builder, cmd>>
    /\ BuildFrame

\* the accessors and hooks of the Command the caller holds
CallName ==
    /\ cmd # None
    /\ last' = Did("Command.name", <<>>, Returned(CommandName(cmd), <<>>))
    /\ UNCHANGED <<builder, cmd>>
    /\ BuildFrame

CallType ==
    /\ cmd # None
    /\ last' = Did("Command.type", <<>>, Returned(CommandType(cmd), <<>>))
    /\ UNCHANGED <<builder, cmd>>
    /\ BuildFrame

CallAuthor ==
    /\ cmd # None
    /\ last' = Did("Command.author", <<>>, Returned(CommandAuthor(cmd), <<>>))
    /\ UNCHANGED <<builder, cmd>>
    /\ BuildFrame

CallTitle ==
    /\ cmd # None
    /\ last' = Did("Command.title", <<>>, CommandTitle(cmd, builder))
    /\ UNCHANGED <<builder, cmd>>
    /\ BuildFrame

CallSelect(args) ==
    /\ cmd # None
    /\ last' = Did("Command.select", args, CommandSelect(cmd, args, builder))
    /\ UNCHANGED <<builder, cmd>>
    /\ BuildFrame

CallRun(args) ==
    /\ cmd # None
    /\ last' = Did("Command.run", args, CommandRun(cmd, args, builder))
    /\ UNCHANGED <<builder, cmd>>
    /\ BuildFrame

Init ==
    /\ builder = NewBuilder
    /\ cmd = None
    /\ last = Idle
    /\ plugin = None
    /\ probe = None
    /\ bag = {}
    /\ seed = 0
    /\ text = <<>>
    /\ linesep = <<"\n">>
    /\ out = None

Next ==
    \/ \E name \in Names : SetName(name)
    \/ \E type \in Types : SetType(type)
    \/ \E author \in Authors : SetAuthor(author)
    \/ \E h \in TitleHooks : SetTitle(h)
    \/ \E h \in RunHooks : SetRun(h)
    \/ \E h \in SelectHooks : SetSelect(h)
    \/ \E keep \in BOOLEAN : Build(keep)
    \/ CallName
    \/ CallType
    \/ CallAuthor
    \/ CallTitle
    \/ \E args \in Inputs : CallSelect(args)
    \/ \E args \in Inputs : CallRun(args)

Spec == Init /\ [][Next]_vars

----------------------------------------------------------------------------
(* AbstractPlugin and its four subtypes *)

List(s) == [t |-> "list", v |-> s]

PluginTypes == {DECODER, ENCODER, HASHER, SCRIPT}

\* faulty variant: the author is not checked
PluginAssertsNoAuthor(name, type, author) ==
    /\ name # None /\ Len(name.v) > 0
    /\ type \in {DECODER, ENCODER, HASHER, SCRIPT}

\* the three assertions of AbstractPlugin.__init__
PluginAsserts(name, type, author) ==
    /\ name # None /\ Len(name.v) > 0
    /\ type \in PluginTypes
    /\ author # None /\ Len(author.v) > 0

\* AbstractPlugin.__init__: the object, or the assertion error
PluginInit(name, type, author, dependencies) ==
    IF PluginAsserts(name, type, author)
    THEN Returned([name |-> name, type |-> type, author |-> author,
                   dependencies |-> dependencies], <<>>)
    ELSE Raised("AssertionError", <<>>)

DecoderPluginInit(name, author, dependencies) ==
    PluginInit(name, DECODER, author, dependencies)

EncoderPluginInit(name, author, dependencies) ==
    PluginInit(name, ENCODER, author, dependencies)

HasherPluginInit(name, author, dependencies) ==
    PluginInit(name, HASHER, author, dependencies)

ScriptPluginInit(name, author, dependencies) ==
    PluginInit(name, SCRIPT, author, dependencies)

PluginName(p) == p.name
PluginType(p) == p.type
PluginAuthor(p) == p.author
PluginTitle(p) == Str(Format2(p.name.v, Capitalize(p.type.v)))

\* What importlib.import_module(dependency) can do: return, raise an error
\* derived from Exception, or raise a BaseException that is no Exception
\* (the imported module calls sys.exit()).
ExceptionClasses == {"ModuleNotFoundError", "ValueError"}
ImportOutcomes == {"ok"} \cup ExceptionClasses \cup {"SystemExit"}

\* faulty variant: except ImportError
CaughtImportErrorOnly(outcome) == outcome = "ModuleNotFoundError"

\* except Exception
CaughtByExcept(outcome) == outcome \in ExceptionClasses

\* the loop of check_dependencies from dependency i on; oc[i] is what the i-th
\* import does
RECURSIVE CheckLoop(_, _, _, _)
CheckLoop(deps, oc, i, unresolved) ==
    IF i > Len(deps)
    THEN Returned(List(unresolved), <<>>)
    ELSE IF oc[i] = "ok"
         THEN CheckLoop(deps, oc, i + 1, unresolved)
         ELSE IF CaughtByExcept(oc[i])
              THEN CheckLoop(deps, oc, i + 1, Append(unresolved, deps[i]))
              ELSE Raised(oc[i], <<>>)

\* AbstractPlugin.check_dependencies
CheckDependencies(p, oc) ==
    IF p.dependencies # None /\ Len(p.dependencies.v) > 0
    THEN CheckLoop(p.dependencies.v, oc, 1, <<>>)
    ELSE Returned(List(<<>>), <<>>)

\* the longest dependency list a plugin declares
MaxDeps == 3

Modules == {"os", "nonexistent_xyz"}

RECURSIVE SeqsUpTo(_, _)
SeqsUpTo(S, n) ==
    IF n = 0 THEN {<<>>}
    ELSE LET shorter == SeqsUpTo(S, n - 1)
         IN shorter \cup {Append(q, e) : q \in shorter, e \in S}

DependencyLists == {None} \cup {List(q) : q \in SeqsUpTo(Modules, MaxDeps)}

FewDependencyLists == {None, List(<<"os">>)}

PluginNames == {None, Str(<<>>), Str(<<"B","a","s","e","6","4">>)}
PluginAuthors == {None, Str(<<>>), Str(<<"x">>)}
TypeArgs == PluginTypes \cup {None, Str(<<"d","e","c","o","d","e","r">>)}

DeclaredLen(p) ==
    IF p = None \/ p.dependencies = None THEN 0 ELSE Len(p.dependencies.v)

PluginFrame ==
    UNCHANGED <<builder, cmd, probe, bag, seed, text, linesep, out>>

\* p = Cls(...): the caller's variable is bound only when the constructor returns
Bound(res) == IF res.raised = "" THEN res.ret ELSE plugin

NewAbstractPlugin(name, type, author, deps) ==
    LET res == PluginInit(name, type, author, deps)
    IN /\ last' = Did("AbstractPlugin", <<name, type, author, deps>>, res)
       /\ plugin' = Bound(res)
       /\ PluginFrame

NewDecoderPlugin(name, author, deps) ==
    LET res == DecoderPluginInit(name, author, deps)
    IN /\ last' = Did("DecoderPlugin", <<name, author, deps>>, res)
       /\ plugin' = Bound(res)
       /\ PluginFrame

NewEncoderPlugin(name, author, deps) ==
    LET res == EncoderPluginInit(name, author, deps)
    IN /\ last' = Did("EncoderPlugin", <<name, author, deps>>, res)
       /\ plugin' = Bound(res)
       /\ PluginFrame

NewHasherPlugin(name, author, deps) ==
    LET res == HasherPluginInit(name, author, deps)
    IN /\ last' = Did("HasherPlugin", <<name, author, deps>>, res)
       /\ plugin' = Bound(res)
       /\ PluginFrame

NewScriptPlugin(name, author, deps) ==
    LET res == ScriptPluginInit(name, author, deps)
    IN /\ last' = Did("ScriptPlugin", <<name, author, deps>>, res)
       /\ plugin' = Bound(res)
       /\ PluginFrame

\* plugin.check_dependencies(), the imports behaving as oc says
CallCheckDependencies ==
    /\ plugin # None
    /\ \E oc \in [1..DeclaredLen(plugin) -> ImportOutcomes] :
          last' = Did("check_dependencies", oc, CheckDependencies(plugin, oc))
    /\ UNCHANGED plugin
    /\ PluginFrame

CallPluginTitle ==
    /\ plugin # None
    /\ last' = Did("title", <<>>, Returned(PluginTitle(plugin), <<>>))
    /\ UNCHANGED plugin
    /\ PluginFrame

\* AbstractPlugin.run, and select, which forwards to it
CallPluginRun(op, args) ==
    /\ plugin # None
    /\ last' = Did(op, args, Raised("NotImplementedError", <<>>))
    /\ UNCHANGED plugin
    /\ PluginFrame

\* construction, with a declared dependency list or none
NextPlugin ==
    \/ \E name \in PluginNames, type \in TypeArgs, author \in PluginAuthors,
          deps \in FewDependencyLists : NewAbstractPlugin(name, type, author, deps)
    \/ \E name \in PluginNames, author \in PluginAuthors,
          deps \in FewDependencyLists : NewDecoderPlugin(name, author, deps)
    \/ \E name \in PluginNames, author \in PluginAuthors,
          deps \in FewDependencyLists : NewEncoderPlugin(name, author, deps)
    \/ \E name \in PluginNames, author \in PluginAuthors,
          deps \in FewDependencyLists : NewHasherPlugin(name, author, deps)
    \/ \E name \in PluginNames, author \in PluginAuthors,
          deps \in FewDependencyLists : NewScriptPlugin(name, author, deps)
    \/ CallPluginTitle
    \/ \E op \in {"run", "select"}, args \in Inputs : CallPluginRun(op, args)

\* a valid plugin with any declared dependency list, and its dependency check
NextDeps ==
    \/ \E deps \in DependencyLists :
          NewDecoderPlugin(Str(<<"B","a","s","e","6","4">>), Str(<<"x">>), deps)
    \/ \E deps \in DependencyLists :
          NewScriptPlugin(Str(<<"r","o","t">>), Str(<<"x">>), deps)
    \/ CallCheckDependencies

SpecPlugin == Init /\ [][NextPlugin]_vars

SpecDeps == Init /\ [][NextDeps]_vars

----------------------------------------------------------------------------
(* Equality and hashing of Commands and of plugins *)

True == [t |-> "bool", v |-> <<"True">>]
False == [t |-> "bool", v |-> <<"False">>]
Bool(b) == IF b THEN True ELSE False

Digits == <<"0","1","2","3","4","5","6","7","8","9">>

Alphabet == LowerCase \o UpperCase \o Digits

\* the code point of each character, as far as hashing tells characters apart
CharCodes ==
    [c \in {Alphabet[i] : i \in 1..Len(Alphabet)} |->
        CHOOSE i \in 1..Len(Alphabet) : Alphabet[i] = c]

CharCode(c) == CharCodes[c]

\* hash(str): a function of the characters and of the process's hash seed
RECURSIVE HashChars(_, _)
HashChars(s, h) ==
    IF s = <<>> THEN h
    ELSE HashChars(Tail(s), (h * 31 + CharCode(Head(s))) % 65536)

\* hash((a, b)) for two str
HashPair(key) ==
    (HashChars(key[1].v, seed) * 33 + HashChars(key[2].v, seed)) % 65536

\* faulty variant: the author is part of the key
CommandKeyWithAuthor(c) == <<c.name, c.type, c.author>>

\* Command.__key
CommandKey(c) == <<c.name, c.type>>

\* Command.__eq__
CommandEq(x, y) == CommandKey(x) = CommandKey(y)

\* Command.__hash__
CommandHash(c) == HashPair(CommandKey(c))

\* AbstractPlugin.__key
PluginKey(p) == <<p.name, p.type>>

\* AbstractPlugin.__eq__
PluginEq(x, y) == PluginKey(x) = PluginKey(y)

\* AbstractPlugin.__hash__
PluginHash(p) == HashPair(PluginKey(p))

IsCommand(o) == "run_method" \in DOMAIN o
IsPlugin(o) == "dependencies" \in DOMAIN o
SameClass(x, y) == IsCommand(x) = IsCommand(y) /\ IsPlugin(x) = IsPlugin(y)

\* x == y and hash(x) as Python dispatches them on objects of one class
ObjEq(x, y) == IF IsCommand(x) THEN CommandEq(x, y) ELSE PluginEq(x, y)
ObjHash(x) == IF IsCommand(x) THEN CommandHash(x) ELSE PluginHash(x)

\* x in S for a Python set: a member with the same hash that equals x
SetContains(S, x) == \E m \in S : ObjHash(m) = ObjHash(x) /\ ObjEq(m, x)

\* S.add(x): an element equal to a member is not added
SetAdd(S, x) == IF SetContains(S, x) THEN S ELSE S \cup {x}

EqNames == {Str(<<"B","a","s","e","6","4">>), Str(<<"r","o","t">>)}
EqTypes == {DECODER, ENCODER}
EqAuthors == {None, Str(<<"x">>)}
HashSeeds == {0, 7}

EqFrame == UNCHANGED <<builder, cmd, plugin, seed, text, linesep, out>>

\* probe = Command(name, type, author, title, run, select)
MakeCommand(name, type, author, run_method) ==
    /\ probe' = NewCommand(name, type, author, Fn("t"), run_method, Fn("s"))
    /\ last' = Did("Command", <<>>, Returned(None, <<>>))
    /\ UNCHANGED bag
    /\ EqFrame

\* probe = DecoderPlugin(name, author) or EncoderPlugin(name, author)
MakePlugin(type, name, author) ==
    /\ probe' = (IF type = DECODER
                 THEN DecoderPluginInit(name, author, None)
                 ELSE EncoderPluginInit(name, author, None)).ret
    /\ last' = Did("Plugin", <<>>, Returned(None, <<>>))
    /\ UNCHANGED bag
    /\ EqFrame

\* registry.add(probe); a registry holds objects of one class
BagAdd ==
    /\ probe # None
    /\ \A m \in bag : SameClass(m, probe)
    /\ bag' = SetAdd(bag, probe)
    /\ last' = Did("add", <<>>, Returned(None, <<>>))
    /\ UNCHANGED probe
    /\ EqFrame

\* registry.clear()
BagClear ==
    /\ bag' = {}
    /\ last' = Did("clear", <<>>, Returned(None, <<>>))
    /\ UNCHANGED probe
    /\ EqFrame

\* probe in registry
BagLookup ==
    /\ probe # None
    /\ \A m \in bag : SameClass(m, probe)
    /\ last' = Did("in", <<>>, Returned(Bool(SetContains(bag, probe)), <<>>))
    /\ UNCHANGED <<probe, bag>>
    /\ EqFrame

InitEq ==
    /\ builder = NewBuilder
    /\ cmd = None
    /\ last = Idle
    /\ plugin = None
    /\ probe = None
    /\ bag = {}
    /\ seed \in HashSeeds
    /\ text = <<>>
    /\ linesep = <<"\n">>
    /\ out = None

NextEq ==
    \/ \E name \in EqNames, type \in EqTypes, author \in EqAuthors,
          run_method \in RunHooks : MakeCommand(name, type, author, run_method)
    \/ \E type \in EqTypes, name \in EqNames, author \in {Str(<<"x">>), Str(<<"y">>)} :
          MakePlugin(type, name, author)
    \/ BagAdd
    \/ BagClear
    \/ BagLookup

SpecEq == InitEq /\ [][NextEq]_vars

SameNameAndType(x, y) == x.name = y.name /\ x.type = y.type

\* C3: two Commands (two plugins) are equal iff name and type both match, equal
\* ones hash alike, and an object is found in a set iff the set holds one with
\* its name and type, whatever their authors and hooks.
EqualIffSameNameAndType ==
    /\ \A x \in bag \cup {probe}, y \in bag \cup {probe} :
         (x # None /\ y # None /\ SameClass(x, y))
           => /\ ObjEq(x, y) <=> SameNameAndType(x, y)
              /\ ObjEq(x, y) => ObjHash(x) = ObjHash(y)
    /\ last.op = "in"
         => last.ret = Bool(\E m \in bag : SameNameAndType(m, probe))

FoundDespiteOtherAuthorAndHook ==
    /\ last.op = "in"
    /\ last.ret = True
    /\ IsCommand(probe)
    /\ \E m \in bag : /\ SameNameAndType(m, probe)
                      /\ CommandAuthor(m) # CommandAuthor(probe)
                      /\ m.run_method # probe.run_method

----------------------------------------------------------------------------
(* Claims about Command and Command.Builder, checked under Spec *)

MissingField(b) ==
    \/ b.name = None
    \/ b.name = Str(<<>>)
    \/ b.type = None
    \/ b.run_method = None

\* C1: build() fails with an assertion error, returns no Command and leaves the
\* caller's Command alone whenever the name is unset or empty, the type is unset
\* or the run hook is unset, whatever the other fields are.
BuildFailsOnMissingField ==
    [][(last'.op = "Builder.build" /\ MissingField(builder))
         => /\ last'.raised = "AssertionError"
            /\ last'.ret = None
            /\ cmd' = cmd]_vars

BuildRejectedEmptyName ==
    /\ last.op = "Builder.build"
    /\ last.raised = "AssertionError"
    /\ builder.name = Str(<<>>)
    /\ builder.type # None
    /\ builder.run_method # None

\* C2: with a non-empty name, a type, an author and a run hook set, build()
\* succeeds and name(), type() and author() of the result are the values the
\* builder was last given.
BuildKeepsNameTypeAuthor ==
    [][(/\ last'.op = "Builder.build"
        /\ ~MissingField(builder)
        /\ builder.author # None)
         => /\ last'.raised = ""
            /\ last'.ret # None
            /\ CommandName(last'.ret) = builder.name
            /\ CommandType(last'.ret) = builder.type
            /\ CommandAuthor(last'.ret) = builder.author]_vars

BuiltWithAuthor ==
    /\ last.op = "Builder.build"
    /\ last.raised = ""
    /\ last.ret = cmd
    /\ CommandAuthor(cmd) = Str(<<"x">>)
    /\ cmd.title_method = Fn("t")
    /\ cmd.select_method = DefaultSelect

\* everything a caller can observe of Command c
Observe(c, b) ==
    [name |-> CommandName(c), type |-> CommandType(c),
     author |-> CommandAuthor(c), title |-> CommandTitle(c, b),
     run |-> [a \in Inputs |-> CommandRun(c, a, b)],
     select |-> [a \in Inputs |-> CommandSelect(c, a, b)]]

\* C4: once built, a Command answers name(), type(), author(), title(), run()
\* and select() the same way whatever is later done to its Builder.
CommandImmutable ==
    [][(cmd # None /\ cmd' = cmd)
         => Observe(cmd', builder') = Observe(cmd, builder)]_vars

\* C6: the default select() calls the Command's run hook exactly once with the
\* same input and returns nothing; run() returns the run hook's result.
DefaultSelectRunsOnce ==
    /\ (last.op = "Command.select" /\ cmd.select_method = DefaultSelect)
         => /\ last.calls = <<[fn |-> cmd.run_method, args |-> last.arg]>>
            /\ last.ret = None
            /\ last.raised = ""
    /\ last.op = "Command.run"
         => /\ last.ret = HookResult(cmd.run_method, last.arg)
            /\ last.raised = ""

\* C9: built without an author, the Command's author() is the empty string.
UnsetAuthorIsEmptyString ==
    (last.op = "Builder.build" /\ ~MissingField(builder) /\ builder.author = None)
      => /\ last.raised = ""
         /\ CommandAuthor(last.ret) = Str(<<>>)

\* a str with its first letter upper-cased and the rest as it is
UpperFirst(s) == [i \in 1..Len(s) |-> IF i = 1 THEN ToUpper(s[i]) ELSE s[i]]

\* C10: title() of a Command built without a title hook is its name, a space
\* and its type with the first letter upper-cased; with a title hook it is the
\* hook's result.
DefaultTitleFormat ==
    last.op = "Command.title"
      => IF cmd.title_method = DefaultTitle
         THEN last.ret = Str(Format2(CommandName(cmd).v,
                                      UpperFirst(CommandType(cmd).v)))
         ELSE last.ret = HookResult(cmd.title_method, <<>>)

----------------------------------------------------------------------------
(* Claims about plugins, checked under SpecPlugin and SpecDeps *)

IsEmptyOrNone(x) == x = None \/ x = Str(<<>>)

\* C8: a constructed plugin has a non-empty name, a non-empty author and one
\* of the four types; AbstractPlugin() fails on any other argument; a plugin
\* built by a subtype's constructor has that subtype's type.
PluginWellFormed ==
    /\ plugin # None
         => /\ ~IsEmptyOrNone(PluginName(plugin))
            /\ ~IsEmptyOrNone(PluginAuthor(plugin))
            /\ PluginType(plugin) \in {DECODER, ENCODER, HASHER, SCRIPT}
    /\ (/\ last.op = "AbstractPlugin"
        /\ \/ IsEmptyOrNone(last.arg[1])
           \/ IsEmptyOrNone(last.arg[3])
           \/ last.arg[2] \notin {DECODER, ENCODER, HASHER, SCRIPT})
         => last.raised = "AssertionError" /\ last.ret = None
    /\ (last.op = "AbstractPlugin" /\ last.raised = "")
         => plugin = last.ret /\ PluginType(plugin) = last.arg[2]
    /\ (last.op = "DecoderPlugin" /\ last.raised = "")
         => plugin = last.ret /\ PluginType(plugin) = DECODER
    /\ (last.op = "EncoderPlugin" /\ last.raised = "")
         => plugin = last.ret /\ PluginType(plugin) = ENCODER
    /\ (last.op = "HasherPlugin" /\ last.raised = "")
         => plugin = last.ret /\ PluginType(plugin) = HASHER
    /\ (last.op = "ScriptPlugin" /\ last.raised = "")
         => plugin = last.ret /\ PluginType(plugin) = SCRIPT

HasherPluginBuilt ==
    /\ last.op = "HasherPlugin"
    /\ last.raised = ""
    /\ plugin = last.ret
    /\ PluginType(plugin) = HASHER
    /\ PluginAuthor(plugin) = Str(<<"x">>)

\* the declared dependencies of p, none when it declares None
Declared(p) == IF p.dependencies = None THEN <<>> ELSE p.dependencies.v

\* the positions of S in increasing order
NthOf(S, k) == CHOOSE i \in S : Cardinality({j \in S : j <= i}) = k

\* the entries of deps at the positions in S, in declared order
EntriesAt(deps, S) == [k \in 1..Cardinality(S) |-> deps[NthOf(S, k)]]

\* C5 as stated: check_dependencies() returns the declared dependencies whose
\* import fails, in declared order, never raises whatever the import raises,
\* and leaves the declared list unchanged.
CheckNeverRaises ==
    [][last'.op = "check_dependencies"
         => /\ plugin' = plugin
            /\ last'.raised = ""
            /\ last'.ret = List(EntriesAt(Declared(plugin),
                                {i \in DOMAIN last'.arg : last'.arg[i] # "ok"}))]_vars

\* C5, amended: the same for imports that return or raise an error derived
\* from Exception; the first import that raises a BaseException which is no
\* Exception (SystemExit) ends the call with that exception.
CheckReportsFailedImports ==
    [][last'.op = "check_dependencies"
         => LET oc == last'.arg
                escaping == {i \in DOMAIN oc : oc[i] \notin
                    {"ok", "ModuleNotFoundError", "ValueError"}}
            IN /\ plugin' = plugin
               /\ IF escaping = {}
                  THEN /\ last'.raised = ""
                       /\ last'.ret = List(EntriesAt(Declared(plugin),
                                           {i \in DOMAIN oc : oc[i] # "ok"}))
                  ELSE last'.raised = oc[NthOf(escaping, 1)]]_vars

SecondDependencyUnresolved ==
    /\ last.op = "check_dependencies"
    /\ Declared(plugin) = <<"os", "nonexistent_xyz">>
    /\ last.arg = <<"ok", "ModuleNotFoundError">>
    /\ last.raised = ""
    /\ last.ret = List(<<"nonexistent_xyz">>)

----------------------------------------------------------------------------
(* AbstractPlugin._run_lines *)

\* the line boundaries of str.splitlines() among the characters typed here;
\* "\r\n" is one boundary
LineBreaks == {"\n", "\r"}

\* text.splitlines(): no line after a final boundary
RECURSIVE SplitLinesFrom(_, _, _)
SplitLinesFrom(s, cur, acc) ==
    IF s = <<>>
    THEN IF cur # <<>> THEN Append(acc, cur) ELSE acc
    ELSE IF Len(s) >= 2 /\ s[1] = "\r" /\ s[2] = "\n"
         THEN SplitLinesFrom(Tail(Tail(s)), <<>>, Append(acc, cur))
         ELSE IF Head(s) \in LineBreaks
              THEN SplitLinesFrom(Tail(s), <<>>, Append(acc, cur))
              ELSE SplitLinesFrom(Tail(s), Append(cur, Head(s)), acc)

SplitLines(s) == SplitLinesFrom(s, <<>>, <<>>)

IsPrefix(p, s) == Len(p) <= Len(s) /\ SubSeq(s, 1, Len(p)) = p

\* s.split(sep) for a non-empty separator: every occurrence splits, so two
\* separators in a row give an empty part
RECURSIVE SplitFrom(_, _, _, _)
SplitFrom(s, sep, cur, acc) ==
    IF s = <<>>
    THEN Append(acc, cur)
    ELSE IF IsPrefix(sep, s)
         THEN SplitFrom(SubSeq(s, Len(sep) + 1, Len(s)), sep, <<>>, Append(acc, cur))
         ELSE SplitFrom(Tail(s), sep, Append(cur, Head(s)), acc)

Split(s, sep) == SplitFrom(s, sep, <<>>, <<>>)

\* sep.join(parts)
RECURSIVE Join(_, _)
Join(parts, sep) ==
    IF parts = <<>> THEN <<>>
    ELSE IF Len(parts) = 1 THEN parts[1]
         ELSE parts[1] \o sep \o Join(Tail(parts), sep)

RECURSIVE Flatten(_)
Flatten(seqs) == IF seqs = <<>> THEN <<>> ELSE Head(seqs) \o Flatten(Tail(seqs))

\* the callbacks plugins pass: one returns its token, one upper-cases it
Callbacks == {"identity", "upper"}

Apply(callback, token) ==
    IF callback = "upper"
    THEN [i \in 1..Len(token) |-> ToUpper(token[i])]
    ELSE token

\* faulty variant: empty parts are kept
AllParts(parts) == parts

\* if text_part: the parts of a line the callback is applied to
NonEmptyParts(parts) == SelectSeq(parts, LAMBDA part : part # <<>>)

\* one pass of the outer loop: the callback's results for a line, and the
\* tokens the callback was called with
LineOut(text_line, callback) ==
    LET kept == NonEmptyParts(Split(text_line, <<" ">>))
    IN [result |-> [k \in 1..Len(kept) |-> Apply(callback, kept[k])],
        calls |-> kept]

\* AbstractPlugin._run_lines
RunLines(txt, callback, sep) ==
    LET ls == SplitLines(txt)
        per == [i \in 1..Len(ls) |-> LineOut(ls[i], callback)]
    IN [callback |-> callback,
        ret |-> Str(Join([i \in 1..Len(ls) |-> Join(per[i].result, <<" ">>)], sep)),
        calls |-> Flatten([i \in 1..Len(ls) |-> per[i].calls])]

\* the longest text typed into the buffer
MaxText == 4

Chars == {"a", "b", " ", "\t", "\n", "\r"}

LineSeps == {<<"\n">>, <<"\r", "\n">>}

LinesFrame == UNCHANGED <<builder, cmd, last, plugin, probe, bag, seed, linesep>>

\* the user types a character into the buffer
TypeChar(c) ==
    /\ Len(text) < MaxText
    /\ text' = Append(text, c)
    /\ out' = None
    /\ LinesFrame

\* a plugin's run(text) calls self._run_lines(text, callback)
CallRunLines(callback) ==
    /\ out' = RunLines(text, callback, linesep)
    /\ UNCHANGED text
    /\ LinesFrame

InitLines ==
    /\ builder = NewBuilder
    /\ cmd = None
    /\ last = Idle
    /\ plugin = None
    /\ probe = None
    /\ bag = {}
    /\ seed = 0
    /\ text = <<>>
    /\ linesep \in LineSeps
    /\ out = None

NextLines ==
    \/ \E c \in Chars : TypeChar(c)
    \/ \E callback \in Callbacks : CallRunLines(callback)

SpecLines == InitLines /\ [][NextLines]_vars

\* the maximal runs of characters outside seps in line, from left to right
RunsOutside(line, seps) ==
    LET starts == {i \in 1..Len(line) :
                     line[i] \notin seps /\ (i = 1 \/ line[i - 1] \in seps)}
        EndOf(i) == CHOOSE j \in i..Len(line) :
                      /\ \A k \in i..j : line[k] \notin seps
                      /\ (j = Len(line) \/ line[j + 1] \in seps)
    IN [k \in 1..Cardinality(starts) |->
          SubSeq(line, NthOf(starts, k), EndOf(NthOf(starts, k)))]

\* The callback was called once per token, in order, and the result read back
\* (split at the line separator, then at spaces) has one piece per line of the
\* text and the callback's result for each token of that line.
TokensJoined(seps) ==
    out # None
      => LET ls == SplitLines(text)
             toks == [i \in 1..Len(ls) |-> RunsOutside(ls[i], seps)]
             pieces == Split(out.ret.v, linesep)
         IN /\ out.calls = Flatten(toks)
            /\ IF ls = <<>>
               THEN out.ret = Str(<<>>)
               ELSE /\ Len(pieces) = Len(ls)
                    /\ \A i \in 1..Len(ls) :
                         IF toks[i] = <<>>
                         THEN pieces[i] = <<>>
                         ELSE Split(pieces[i], <<" ">>) =
                                [k \in 1..Len(toks[i]) |->
                                   Apply(out.callback, toks[i][k])]

\* C7 as stated: the tokens of a line are separated by whitespace.
WhitespaceTokensJoined == TokensJoined({" ", "\t"})

\* C7, amended: the tokens of a line are separated by the space character
\* only; a tab stays inside its token.
SpaceTokensJoined == TokensJoined({" "})

RepeatedSpacesCollapsed ==
    /\ out # None
    /\ out.callback = "upper"
    /\ text = <<"a", " ", " ", "b">>
    /\ out.ret = Str(<<"A", " ", "B">>)
    /\ out.calls = <<(<<"a">>), (<<"b">>)>>

====
